---- MODULE Spec2Model ----
(***************************************************************************)
(* Memory map acquisition (BootServices::get_memory_map) and boot-service  *)
(* termination (BootServices::exit_boot_services) of nuefil, run against a *)
(* firmware whose memory map changes while the program is running.         *)
(*                                                                         *)
(* Every firmware call of the program is one step; between two calls the   *)
(* firmware may change its memory map (FirmwareEvent).                     *)
(***************************************************************************)
EXTENDS Integers, Sequences, FiniteSets, TLC

\* ------------------------------------------------------------ constants

\* memory.rs: pub const PAGE_SIZE: usize = 0x1000
PAGE_SIZE == 4096

\* size_of::<MemoryDescriptor>() for the #[repr(C)] struct: u32 (+4 padding)
\* and four 64-bit fields.
MinDescriptorSize == 40

\* Raw classification codes (impl From<NamedMemoryType> for MemoryType).
LoaderData == 2
BootServicesCode == 3
BootServicesData == 4
ConventionalMemory == 7

\* Status values.  SUCCESS is the only value the loops compare against.
SUCCESS == "Success"
BufferTooSmall == "BufferTooSmall"
InvalidParameter == "InvalidParameter"
OutOfResources == "OutOfResources"
NotFound == "NotFound"
Aborted == "Aborted"

\* --------------------------------------------------------------- bounds

\* Largest number of regions the firmware's memory map grows to.
MaxRegions == 6
\* How often the firmware changes its map on its own during one call.
MaxEvents == 2
\* How often GetMemoryMap fails with a status other than BufferTooSmall.
MaxFaults == 1

\* Descriptor strides the firmware may use: one below the minimum, the
\* minimum, and two wide ones that make a few regions exceed one page.
Strides == {32, 40, 1504, 2048}
\* Bytes the firmware reports beyond a whole number of records.
Tails == {0, 8}
\* Layouts of the classification tags in the firmware's map.
Patterns == {0, 1}

VARIABLES
    pc,          \* position of the running program
    op,          \* the public operation that was called
    memory_map,  \* the MemoryMap struct under construction / returned
    buf,         \* contents of the buffer memory_map.buffer points to
    filled,      \* contents written by the last successful GetMemoryMap
    fw,          \* the firmware: map, key, allocations
    log,         \* the firmware calls made so far, in order
    result,      \* what the operation returned
    locals       \* the locals of a function that is evaluated on its own

vars == <<pc, op, memory_map, buf, filled, fw, log, result, locals>>

\* ------------------------------------------------------------- helpers

CeilDiv(a, b) == (a + b - 1) \div b

Min(a, b) == IF a < b THEN a ELSE b

TypeCycle == <<BootServicesCode, ConventionalMemory, BootServicesData, LoaderData>>

\* ------------------------------------------------------------ firmware

\* Classification of region i of the firmware's map.
RegionType(pattern, i) == TypeCycle[((i + pattern) % 4) + 1]

\* Bytes the firmware needs for its current map.
FwRequired(f) == f.count * f.stride + f.tail

\* The bytes the firmware writes on a successful fill, one entry per
\* stride-sized slot: the fields of MemoryDescriptor and, in Trailing, what
\* the firmware keeps behind them when its stride is wider.  The last slot is
\* shorter when the size is not a multiple of the stride.
FwContent(f) ==
    [i \in 1..CeilDiv(FwRequired(f), f.stride) |->
        [Type |-> RegionType(f.pattern, i),
         PhysicalStart |-> i * PAGE_SIZE,
         VirtualStart |-> 0,
         NumberOfPages |-> i,
         Attribute |-> (i % 2) + 8,
         Trailing |-> (IF f.stride > MinDescriptorSize THEN f.key + i ELSE 0),
         bytes |-> Min(f.stride, FwRequired(f) - (i - 1) * f.stride)]]

\* The firmware's map after something allocated or freed memory: a new key,
\* and possibly one more region.
MapChanged(f) ==
    {[f EXCEPT !.key = f.key + 1, !.count = c] :
        c \in {f.count} \cup (IF f.count < MaxRegions THEN {f.count + 1} ELSE {})}

\* AllocatePages(AllocType 0, memory_type, pages, &mut address).
FwAllocatePages(f, pages) ==
    {[status |-> OutOfResources, address |-> 0, fw |-> f]}
    \cup
    {[status |-> SUCCESS, address |-> f.nextAddr,
      fw |-> [g EXCEPT !.live = f.live \cup {[address |-> f.nextAddr, pages |-> pages]},
                       !.nextAddr = f.nextAddr + 1]] : g \in MapChanged(f)}

\* FreePages(memory, pages).  A page count that differs from the one the
\* range was allocated with is outside the firmware's contract: it may be
\* refused, or it may be carried out on whatever the range covers.
FwFreePages(f, address, pages) ==
    LET exact == {a \in f.live : a.address = address /\ a.pages = pages}
        hit == {a \in f.live : a.address = address}
    IN  {[status |-> (IF exact # {} THEN InvalidParameter ELSE NotFound), fw |-> f]}
        \cup
        {[status |-> SUCCESS, fw |-> [g EXCEPT !.live = f.live \ hit]] :
            g \in (IF hit # {} THEN MapChanged(f) ELSE {})}

\* GetMemoryMap(&mut size, buffer, &mut key, &mut descriptor_size, &mut version).
FwGetMemoryMap(f, size) ==
    (IF size < FwRequired(f)
     THEN {[status |-> BufferTooSmall, size |-> FwRequired(f), fw |-> f]}
     ELSE {[status |-> SUCCESS, size |-> FwRequired(f), fw |-> f]})
    \cup
    (IF f.faults < MaxFaults
     THEN {[status |-> InvalidParameter, size |-> size,
            fw |-> [f EXCEPT !.faults = f.faults + 1]]}
     ELSE {})

\* ExitBootServices(image_handle, map_key): accepted exactly when the key is
\* the key of the firmware's current map.
FwExitBootServices(f, key) ==
    IF key = f.key
    THEN [status |-> SUCCESS, fw |-> [f EXCEPT !.active = FALSE]]
    ELSE [status |-> InvalidParameter, fw |-> f]

\* ------------------------------------------------------------- program

\* One entry of the call log: the function, the buffer and the argument
\* passed (page count, offered size or key), the status returned, the size
\* and key written back, and the position of the program at the call.
Call(fn, buffer, arg, status, size, key, at) ==
    [fn |-> fn, buffer |-> buffer, arg |-> arg, status |-> status,
     size |-> size, key |-> key, phase |-> at]

\* An error path that reports every failure as OutOfResources.
Propagate_generic(status) == OutOfResources

\* A `?` that maps every error to the aborted kind.
Propagate_aborted(status) == Aborted

\* The `?` operator on a firmware status: the error is returned as it is.
Propagate(status) == status

\* get_memory_map: the MemoryMap built around the first, one-page buffer.
InitialMap(address) ==
    [buffer |-> address, alloc_size |-> 1, size |-> PAGE_SIZE, key |-> 0,
     descriptor_size |-> 0, version |-> 0]

\* A fill that leaves the size alone on success, as if the firmware wrote it
\* only to ask for more.
StoreFill_sizeOnFailure(mm, r) ==
    IF r.status = SUCCESS
    THEN [mm EXCEPT !.key = r.fw.key, !.descriptor_size = r.fw.stride, !.version = 1]
    ELSE [mm EXCEPT !.size = r.size]

\* A fill that stores the size only on success, so that the next round offers
\* the old size again.
StoreFill_keepSize(mm, r) ==
    IF r.status = SUCCESS
    THEN [mm EXCEPT !.size = r.size, !.key = r.fw.key,
                    !.descriptor_size = r.fw.stride, !.version = 1]
    ELSE mm

\* A fill that writes the key to a temporary and never stores it.
StoreFill_staleKey(mm, r) ==
    IF r.status = SUCCESS
    THEN [mm EXCEPT !.size = r.size, !.descriptor_size = r.fw.stride, !.version = 1]
    ELSE [mm EXCEPT !.size = r.size]

\* What a GetMemoryMap call leaves in the MemoryMap whose fields it was
\* given as out-parameters: always the size, and on success the key, the
\* stride and the version.
StoreFill(mm, r) ==
    IF r.status = SUCCESS
    THEN [mm EXCEPT !.size = r.size, !.key = r.fw.key,
                    !.descriptor_size = r.fw.stride, !.version = 1]
    ELSE [mm EXCEPT !.size = r.size]

\* A regrowth without the padding page.
NewAllocSize_floor(size) == size \div PAGE_SIZE

\* The page count rounded up before the padding page is added.
NewAllocSize_ceilPlusOne(size) == CeilDiv(size, PAGE_SIZE) + 1

\* get_memory_map: memory_map.alloc_size = (memory_map.size / PAGE_SIZE) + 1
NewAllocSize(size) == (size \div PAGE_SIZE) + 1

\* get_memory_map: the page count passed to free_pages for the old buffer.
FreeCount(mm) == mm.alloc_size

\* exit_boot_services: the key passed to exit_boot_services_with_map.
KeyArg(mm) == mm.key

\* A first attempt whose failure acquires a fresh snapshot with get_memory_map.
AfterFirstAttempt_reacquire(status) ==
    IF status = SUCCESS THEN "return_ok" ELSE "gmm_alloc"

\* A first attempt whose result is not looked at: the map is always re-queried.
AfterFirstAttempt_always(status) == "ebs_requery"

\* exit_boot_services: where the first attempt leads.
AfterFirstAttempt(status) ==
    IF status = SUCCESS THEN "return_ok" ELSE "ebs_requery"

\* A re-query whose status is not looked at.
AfterRequery_ignore(status) == "ebs_retry"

\* A re-query whose test is inverted.
AfterRequery_inverted(status) ==
    IF status = SUCCESS THEN "return_aborted" ELSE "ebs_retry"

\* exit_boot_services: where the re-query inside the recovery loop leads.
AfterRequery(status) ==
    IF status # SUCCESS THEN "return_aborted" ELSE "ebs_retry"

\* A recovery that gives up after one rejected retry.
AfterRetry_once(status) ==
    IF status = SUCCESS THEN "return_ok" ELSE "return_aborted"

\* exit_boot_services: where the attempt inside the recovery loop leads.
AfterRetry(status) ==
    IF status = SUCCESS THEN "return_ok" ELSE "ebs_requery"

\* Slice::chunks(descriptor_size) over `size` bytes: the length of chunk k.
ChunkLen(size, stride, k) == Min(stride, size - (k - 1) * stride)

\* MemoryMapIteratorMut::next, called until it returns None, starting at
\* chunk k: the slots it yields.  A chunk shorter than the stride ends it.
RECURSIVE IterMutFrom(_, _, _)
IterMutFrom(size, stride, k) ==
    IF (k - 1) * stride >= size
    THEN {}
    ELSE IF ChunkLen(size, stride, k) = stride
         THEN {k} \cup IterMutFrom(size, stride, k + 1)
         ELSE {}

\* A rewrite that makes every entry conventional memory.
Reclassify_all(type) == ConventionalMemory

\* A rewrite that forgets the boot-service data classification.
Reclassify_codeOnly(type) ==
    IF type = BootServicesCode THEN ConventionalMemory ELSE type

\* exit_boot_services: the new classification of an entry.
Reclassify(type) ==
    IF type = BootServicesCode \/ type = BootServicesData
    THEN ConventionalMemory
    ELSE type

\* exit_boot_services: for entry in memory_map.iter_mut() { ... }
RewriteBootServices(b, mm) ==
    LET yielded == IterMutFrom(mm.size, mm.descriptor_size, 1)
    IN  [i \in DOMAIN b |->
            IF i \in yielded THEN [b[i] EXCEPT !.Type = Reclassify(@)] ELSE b[i]]

\* Leaving an operation with a value.
Return(value) ==
    /\ pc' = "done"
    /\ result' = value

\* Where a step of exit_boot_services leads: it returns, or goes on at `to`.
Leave(to, mm, b) ==
    /\ pc' = (IF to \in {"return_ok", "return_aborted"} THEN "done" ELSE to)
    /\ result' = (IF to = "return_ok" THEN "Ok"
                  ELSE IF to = "return_aborted" THEN Aborted ELSE result)
    /\ buf' = (IF to = "return_ok" THEN RewriteBootServices(b, mm) ELSE b)

Init ==
    /\ pc = "idle"
    /\ op = "none"
    /\ memory_map = InitialMap(0)
    /\ buf = <<>>
    /\ filled = <<>>
    /\ fw \in [key : {1}, count : 1..MaxRegions, pattern : Patterns,
               stride : Strides, tail : Tails, live : {{}}, nextAddr : {1},
               active : {TRUE}, events : {0}, faults : {0}]
    /\ log = <<>>
    /\ result = "none"
    /\ locals = [fn |-> "none"]

\* pub fn get_memory_map(&self, memory_type)
CallGetMemoryMap ==
    /\ pc = "idle"
    /\ pc' = "gmm_alloc"
    /\ op' = "get_memory_map"
    /\ UNCHANGED <<memory_map, buf, filled, fw, log, result>>
    /\ UNCHANGED locals

\* pub fn exit_boot_services(&self, image_handle): it starts with
\* self.get_memory_map(MemoryType::LoaderData)?
CallExitBootServices ==
    /\ pc = "idle"
    /\ pc' = "gmm_alloc"
    /\ op' = "exit_boot_services"
    /\ UNCHANGED <<memory_map, buf, filled, fw, log, result>>
    /\ UNCHANGED locals

\* get_memory_map: buffer: self.allocate_pages(memory_type, 1)?
GmmAllocInitial ==
    /\ pc = "gmm_alloc"
    /\ \E r \in FwAllocatePages(fw, 1) :
        /\ fw' = r.fw
        /\ log' = Append(log, Call("AllocatePages", r.address, 1, r.status, 0, 0, pc))
        /\ IF r.status = SUCCESS
           THEN /\ memory_map' = InitialMap(r.address)
                /\ pc' = "gmm_query"
                /\ buf' = <<>>
                /\ UNCHANGED result
           ELSE /\ Return(Propagate(r.status))
                /\ UNCHANGED <<memory_map, buf>>
    /\ UNCHANGED <<op, filled>>
    /\ UNCHANGED locals

\* A loop that allocates the new buffer without releasing the old one.
AfterGetMemoryMap_noRelease(status) ==
    IF status = SUCCESS THEN "break" ELSE "gmm_realloc"

\* A loop that returns the status of a failed GetMemoryMap call.
AfterGetMemoryMap_surface(status) ==
    IF status = SUCCESS THEN "break" ELSE "return_err"

\* get_memory_map: if (self.GetMemoryMap)(...) == SUCCESS { break; }, and
\* otherwise the rest of the loop body, which starts with free_pages.
AfterGetMemoryMap(status) ==
    IF status = SUCCESS THEN "break" ELSE "gmm_free"

\* An assertion that is compiled out.
StrideAccepted_unchecked(descriptor_size) == TRUE

\* get_memory_map: assert!(memory_map.descriptor_size >= size_of::<MemoryDescriptor>())
StrideAccepted(descriptor_size) == descriptor_size >= MinDescriptorSize

\* get_memory_map: one round of the loop up to the free_pages call: the
\* GetMemoryMap call, the break and the assertion on success, and the new
\* alloc_size otherwise.
GmmQuery ==
    /\ pc = "gmm_query"
    /\ \E r \in FwGetMemoryMap(fw, memory_map.size) :
        LET mm == StoreFill(memory_map, r)
            to == AfterGetMemoryMap(r.status)
        IN  /\ fw' = r.fw
            /\ log' = Append(log, Call("GetMemoryMap", memory_map.buffer, memory_map.size,
                                       r.status, r.size,
                                       IF r.status = SUCCESS THEN r.fw.key ELSE 0, pc))
            /\ buf' = (IF r.status = SUCCESS THEN FwContent(fw) ELSE buf)
            /\ filled' = (IF r.status = SUCCESS THEN FwContent(fw) ELSE filled)
            /\ IF to = "break"
               THEN /\ memory_map' = mm
                    /\ IF ~StrideAccepted(mm.descriptor_size)
                       THEN /\ pc' = "panic"
                            /\ result' = "Panic"
                       ELSE IF op = "get_memory_map"
                            THEN Return("Ok")
                            ELSE /\ pc' = "ebs_first"
                                 /\ UNCHANGED result
               ELSE IF to = "return_err"
                    THEN /\ memory_map' = mm
                         /\ Return(Propagate(r.status))
                    ELSE /\ memory_map' = [mm EXCEPT !.alloc_size = NewAllocSize(mm.size)]
                         /\ pc' = to
                         /\ UNCHANGED result
    /\ UNCHANGED op
    /\ UNCHANGED locals

\* get_memory_map: self.free_pages(memory_map.buffer, memory_map.alloc_size)?
GmmFree ==
    /\ pc = "gmm_free"
    /\ \E r \in FwFreePages(fw, memory_map.buffer, FreeCount(memory_map)) :
        /\ fw' = r.fw
        /\ log' = Append(log, Call("FreePages", memory_map.buffer, FreeCount(memory_map),
                                   r.status, 0, 0, pc))
        /\ IF r.status = SUCCESS
           THEN /\ pc' = "gmm_realloc"
                /\ UNCHANGED result
           ELSE Return(Propagate(r.status))
    /\ UNCHANGED <<op, memory_map, buf, filled>>
    /\ UNCHANGED locals

\* get_memory_map: memory_map.buffer = self.allocate_pages(memory_type, alloc_size)?
GmmRealloc ==
    /\ pc = "gmm_realloc"
    /\ \E r \in FwAllocatePages(fw, memory_map.alloc_size) :
        /\ fw' = r.fw
        /\ log' = Append(log, Call("AllocatePages", r.address, memory_map.alloc_size,
                                   r.status, 0, 0, pc))
        /\ IF r.status = SUCCESS
           THEN /\ memory_map' = [memory_map EXCEPT !.buffer = r.address]
                /\ buf' = <<>>
                /\ pc' = "gmm_query"
                /\ UNCHANGED result
           ELSE /\ Return(Propagate(r.status))
                /\ UNCHANGED <<memory_map, buf>>
    /\ UNCHANGED <<op, filled>>
    /\ UNCHANGED locals

\* exit_boot_services: match self.exit_boot_services_with_map(image_handle,
\* memory_map.key), and on Ok the rewrite of the entries and the return.
EbsFirst ==
    /\ pc = "ebs_first"
    /\ LET r == FwExitBootServices(fw, KeyArg(memory_map))
       IN  /\ fw' = r.fw
           /\ log' = Append(log, Call("ExitBootServices", 0, KeyArg(memory_map),
                                      r.status, 0, 0, pc))
           /\ Leave(AfterFirstAttempt(r.status), memory_map, buf)
    /\ UNCHANGED <<op, memory_map, filled>>
    /\ UNCHANGED locals

\* exit_boot_services: the GetMemoryMap call inside the recovery loop, into
\* the buffer and the fields of the existing MemoryMap.
EbsRequery ==
    /\ pc = "ebs_requery"
    /\ \E r \in FwGetMemoryMap(fw, memory_map.size) :
        LET mm == StoreFill(memory_map, r)
            b == IF r.status = SUCCESS THEN FwContent(fw) ELSE buf
        IN  /\ fw' = r.fw
            /\ log' = Append(log, Call("GetMemoryMap", memory_map.buffer, memory_map.size,
                                       r.status, r.size,
                                       IF r.status = SUCCESS THEN r.fw.key ELSE 0, pc))
            /\ memory_map' = mm
            /\ filled' = (IF r.status = SUCCESS THEN FwContent(fw) ELSE filled)
            /\ Leave(AfterRequery(r.status), mm, b)
    /\ UNCHANGED op
    /\ UNCHANGED locals

\* exit_boot_services: the ExitBootServices call inside the recovery loop,
\* and on Ok the rewrite of the entries and the return.
EbsRetry ==
    /\ pc = "ebs_retry"
    /\ LET r == FwExitBootServices(fw, KeyArg(memory_map))
       IN  /\ fw' = r.fw
           /\ log' = Append(log, Call("ExitBootServices", 0, KeyArg(memory_map),
                                      r.status, 0, 0, pc))
           /\ Leave(AfterRetry(r.status), memory_map, buf)
    /\ UNCHANGED <<op, memory_map, filled>>
    /\ UNCHANGED locals

\* The firmware changes its memory map between two calls of the program
\* (a timer or notification handler allocating or freeing memory).
FirmwareEvent ==
    /\ pc \in {"gmm_query", "ebs_first", "ebs_requery", "ebs_retry"}
    /\ fw.active
    /\ fw.events < MaxEvents
    /\ \E g \in MapChanged(fw) : fw' = [g EXCEPT !.events = fw.events + 1]
    /\ UNCHANGED <<pc, op, memory_map, buf, filled, log, result>>
    /\ UNCHANGED locals

\* pub unsafe fn drop(self, boot_services): the caller of get_memory_map
\* releases the snapshot it was given, while the boot services are still
\* active.
Drop ==
    /\ pc = "done"
    /\ op = "get_memory_map"
    /\ result = "Ok"
    /\ \E r \in FwFreePages(fw, memory_map.buffer, memory_map.alloc_size) :
        /\ fw' = r.fw
        /\ log' = Append(log, Call("FreePages", memory_map.buffer, memory_map.alloc_size,
                                   r.status, 0, 0, "drop"))
        /\ result' = (IF r.status = SUCCESS THEN "Ok" ELSE Propagate(r.status))
    /\ pc' = "dropped"
    /\ UNCHANGED <<op, memory_map, buf, filled>>
    /\ UNCHANGED locals

Next ==
    \/ CallGetMemoryMap
    \/ CallExitBootServices
    \/ GmmAllocInitial
    \/ GmmQuery
    \/ GmmFree
    \/ GmmRealloc
    \/ EbsFirst
    \/ EbsRequery
    \/ EbsRetry
    \/ Drop
    \/ FirmwareEvent

Spec == Init /\ [][Next]_vars


\* ---------------------------------------------------------- properties

\* The ExitBootServices calls made so far, in order.
EbsCalls == SelectSeq(log, LAMBDA c : c.fn = "ExitBootServices")

\* The GetMemoryMap calls made so far inside the recovery loop, in order.
Requeries ==
    SelectSeq(log, LAMBDA c : c.fn = "GetMemoryMap" /\ c.phase = "ebs_requery")

IsFill(c) == c.fn = "GetMemoryMap" /\ c.status = SUCCESS

Last(s) == s[Len(s)]

ReturnedOk == pc = "done" /\ op = "exit_boot_services" /\ result = "Ok"

\* The slots of the buffer that hold a whole record of the snapshot.
Regions == {i \in DOMAIN buf : i * memory_map.descriptor_size <= memory_map.size}

IsBootService(type) == type \in {BootServicesCode, BootServicesData}

\* No region is tagged boot-service code or data, and every region the last
\* fill tagged so is tagged conventional memory.
AllReclassified ==
    /\ DOMAIN buf = DOMAIN filled
    /\ \A i \in Regions :
        /\ ~IsBootService(buf[i].Type)
        /\ IsBootService(filled[i].Type) => buf[i].Type = ConventionalMemory

C2_StaleOnce ==
    /\ (Len(Requeries) >= 1 /\ Requeries[1].status = SUCCESS)
        => \/ pc = "ebs_retry" /\ Len(EbsCalls) = 1 /\ result = "none"
           \/ Len(EbsCalls) >= 2
    /\ (Len(EbsCalls) >= 2 /\ EbsCalls[1].status # SUCCESS
        /\ EbsCalls[2].status = SUCCESS)
        => /\ ReturnedOk
           /\ Len(EbsCalls) = 2
           /\ Len(Requeries) = 1
           /\ Requeries[1].status = SUCCESS
           /\ AllReclassified

\* C2 witness: a key stale exactly once, with a boot-service region in the
\* map of the re-query.
C2_StaleOnceReached ==
    /\ Len(EbsCalls) = 2
    /\ EbsCalls[1].status # SUCCESS
    /\ EbsCalls[2].status = SUCCESS
    /\ \E i \in Regions : IsBootService(filled[i].Type)

\* C3: whenever exit_boot_services has returned Ok, no region of the snapshot
\* is tagged boot-service code or data, and every region the last successful
\* fill tagged so is tagged conventional memory.
C3_NoBootServiceRegions == ReturnedOk => AllReclassified

\* C3 witness: Ok was returned for a map that held both boot-service
\* classifications.
C3_Rewritten ==
    /\ ReturnedOk
    /\ \E i \in Regions : filled[i].Type = BootServicesCode
    /\ \E i \in Regions : filled[i].Type = BootServicesData

\* C4: from the first ExitBootServices call on there is no AllocatePages and
\* no FreePages call; every re-query is given the buffer of the last
\* allocation, whose page count is still the snapshot's; and that buffer is
\* still allocated.
C4_NoAllocationAfterAttempt ==
    \A i \in DOMAIN log :
        log[i].fn = "ExitBootServices" =>
            /\ \A j \in (i + 1)..Len(log) :
                /\ log[j].fn \notin {"AllocatePages", "FreePages"}
                /\ log[j].fn = "GetMemoryMap" => log[j].buffer = memory_map.buffer
            /\ \E j \in 1..(i - 1) :
                /\ log[j].fn = "AllocatePages" /\ log[j].status = SUCCESS
                /\ log[j].buffer = memory_map.buffer
                /\ log[j].arg = memory_map.alloc_size
                /\ \A k \in (j + 1)..Len(log) : log[k].fn # "AllocatePages"
            /\ \E a \in fw.live : a.address = memory_map.buffer

\* C4 witness: exit_boot_services has returned after a recovery, on either
\* outcome.
C4_ReturnedAfterRecovery ==
    /\ pc = "done"
    /\ Len(Requeries) >= 1
    /\ result \in {"Ok", Aborted}

\* C5: every ExitBootServices call comes after a successful GetMemoryMap fill
\* and passes the key reported by the most recent successful fill; the first
\* one comes after the fill that completed get_memory_map.
C5_KeyOfLatestFill ==
    \A i \in DOMAIN log :
        log[i].fn = "ExitBootServices" =>
            /\ \E j \in 1..(i - 1) :
                /\ IsFill(log[j])
                /\ \A k \in (j + 1)..(i - 1) : ~IsFill(log[k])
                /\ log[i].arg = log[j].key
            /\ \E j \in 1..(i - 1) : IsFill(log[j]) /\ log[j].phase = "gmm_query"

\* C5 witness: a second ExitBootServices call, made with a key that differs
\* from the key of the first.
C5_RetriedWithNewKey ==
    /\ Len(EbsCalls) >= 2
    /\ EbsCalls[2].arg # EbsCalls[1].arg

\* C6: a failed re-query in the recovery loop is the last firmware call:
\* exit_boot_services has returned Aborted, and if it is the first re-query
\* the only ExitBootServices call is the rejected first one.
C6_RequeryFailureAborts ==
    \A i \in DOMAIN log :
        (log[i].fn = "GetMemoryMap" /\ log[i].phase = "ebs_requery"
         /\ log[i].status # SUCCESS) =>
            /\ i = Len(log)
            /\ pc = "done"
            /\ result = Aborted
            /\ Len(Requeries) = 1 => Len(EbsCalls) = 1

\* C6 witness: the first re-query failed because the map no longer fits.
C6_RequeryTooSmall ==
    /\ Len(Requeries) = 1
    /\ Requeries[1].status = BufferTooSmall

\* C7: when AllocatePages or FreePages fails during the acquisition inside
\* exit_boot_services, that call is the last firmware call, the status it
\* returned is the result, the result is not Aborted, and ExitBootServices
\* was never called.
C7_AcquisitionErrorIsPlain ==
    \A i \in DOMAIN log :
        (op = "exit_boot_services" /\ log[i].fn \in {"AllocatePages", "FreePages"}
         /\ log[i].status # SUCCESS) =>
            /\ i = Len(log)
            /\ pc = "done"
            /\ result = log[i].status
            /\ result # Aborted
            /\ Len(EbsCalls) = 0

\* C7 witness: FreePages failed during a regrowth inside exit_boot_services.
C7_FreeFailed ==
    /\ op = "exit_boot_services"
    /\ log # <<>>
    /\ Last(log).fn = "FreePages"
    /\ Last(log).status # SUCCESS

\* C8: when the first ExitBootServices call is accepted it is the only one
\* and the last firmware call, no re-query is made, and the result is Ok
\* with the snapshot of the fill whose key was passed.
C8_AcceptedAtOnce ==
    (Len(EbsCalls) >= 1 /\ EbsCalls[1].status = SUCCESS)
        => /\ ReturnedOk
           /\ Len(EbsCalls) = 1
           /\ Len(Requeries) = 0
           /\ Last(log).fn = "ExitBootServices"
           /\ memory_map.key = EbsCalls[1].arg
           /\ IsFill(log[Len(log) - 1])
           /\ memory_map.size = log[Len(log) - 1].size

\* C8 witness: the key was accepted at the first attempt.
C8_AcceptedReached == Len(EbsCalls) = 1 /\ EbsCalls[1].status = SUCCESS

\* The regrowths of get_memory_map so far: the indices of the AllocatePages
\* calls that follow a GetMemoryMap call reporting the buffer too small.
Regrowths ==
    {i \in DOMAIN log :
        /\ log[i].fn = "AllocatePages" /\ log[i].phase = "gmm_realloc"
        /\ log[i - 2].fn = "GetMemoryMap" /\ log[i - 2].status = BufferTooSmall}

\* C9 (as stated): after a too-small report with required size R the new
\* buffer has ceil(R / PAGE_SIZE) + 1 pages.
C9_CeilPlusOne ==
    \A i \in Regrowths : log[i].arg = CeilDiv(log[i - 2].size, PAGE_SIZE) + 1

\* C9 (amended): after a too-small report with required size R the new
\* buffer has floor(R / PAGE_SIZE) + 1 pages: the largest page count whose
\* predecessor does not exceed R, which is ceil(R / PAGE_SIZE) + 1 only when
\* R is a multiple of PAGE_SIZE and ceil(R / PAGE_SIZE) otherwise.
C9_FloorPlusOne ==
    \A i \in Regrowths :
        LET R == log[i - 2].size
            pages == log[i].arg
        IN  /\ pages * PAGE_SIZE > R
            /\ (pages - 1) * PAGE_SIZE <= R
            /\ pages = (IF R % PAGE_SIZE = 0 THEN CeilDiv(R, PAGE_SIZE) + 1
                        ELSE CeilDiv(R, PAGE_SIZE))

\* C9 witness: a regrowth for a required size that is not a multiple of
\* PAGE_SIZE, and one for a size that is.
C9_RegrownBothWays ==
    /\ \E i \in Regrowths : log[i - 2].size % PAGE_SIZE # 0
    /\ \E i \in Regrowths : log[i - 2].size % PAGE_SIZE = 0

\* The page count the buffer at `address` was allocated with.
AllocatedPages(address) ==
    LET i == CHOOSE i \in DOMAIN log :
                log[i].fn = "AllocatePages" /\ log[i].status = SUCCESS
                /\ log[i].buffer = address
    IN  log[i].arg

\* C10: every FreePages call that follows a too-small report passes the page
\* count the released buffer was allocated with; when the first probe
\* reports a map of three pages, the one-page buffer is released with count 1
\* and at least four pages are allocated.
C10_ReleaseWithAllocatedCount ==
    /\ \A i \in DOMAIN log :
        (log[i].fn = "FreePages" /\ log[i - 1].status = BufferTooSmall)
            => log[i].arg = AllocatedPages(log[i].buffer)
    /\ (Len(log) >= 3 /\ log[2].status = BufferTooSmall
        /\ log[2].size = 3 * PAGE_SIZE /\ log[3].status = SUCCESS)
        => (log[3].arg = 1 /\ memory_map.alloc_size >= 4)

\* The index of the last successful AllocatePages call before call i.
AllocBefore(i) ==
    CHOOSE j \in 1..(i - 1) :
        /\ log[j].fn = "AllocatePages" /\ log[j].status = SUCCESS
        /\ \A k \in (j + 1)..(i - 1) :
            ~(log[k].fn = "AllocatePages" /\ log[k].status = SUCCESS)

\* C11: at most one buffer of the snapshot is allocated at any time, and
\* every allocation of a regrowth comes directly after a successful release
\* of the buffer allocated before it.
C11_OneLiveBuffer ==
    /\ Cardinality(fw.live) <= 1
    /\ \A i \in DOMAIN log :
        (log[i].fn = "AllocatePages" /\ log[i].phase = "gmm_realloc") =>
            /\ log[i - 1].fn = "FreePages"
            /\ log[i - 1].status = SUCCESS
            /\ log[i - 1].buffer = log[AllocBefore(i)].buffer

\* C11 witness: the buffer was reallocated twice and one buffer is allocated.
C11_RegrownTwice ==
    /\ Cardinality({i \in DOMAIN log :
            log[i].phase = "gmm_realloc" /\ log[i].status = SUCCESS}) >= 2
    /\ Cardinality(fw.live) = 1

\* The program keeps running: every firmware call returns, and the
\* single-threaded program then takes its next step.
SpecFair == Init /\ [][Next]_vars /\ WF_vars(Next)

\* The GetMemoryMap calls made so far by the loop of get_memory_map.
Probes == SelectSeq(log, LAMBDA c : c.fn = "GetMemoryMap" /\ c.phase = "gmm_query")

\* Every too-small report asks for more than was offered, and the next round
\* offers what was asked for.
ProbesGrow ==
    \A n \in DOMAIN Probes :
        Probes[n].status = BufferTooSmall =>
            /\ Probes[n].size > Probes[n].arg
            /\ n < Len(Probes) => Probes[n + 1].arg = Probes[n].size

\* get_memory_map has ended and every AllocatePages and FreePages call
\* succeeded.
EndedWithoutAllocationFailure ==
    /\ pc \in {"done", "panic"}
    /\ op = "get_memory_map"
    /\ \A i \in DOMAIN log :
        log[i].fn \in {"AllocatePages", "FreePages"} => log[i].status = SUCCESS

\* Ending without an allocation failure, on a valid stride, is returning the
\* snapshot.
ReturnsSnapshot ==
    (EndedWithoutAllocationFailure /\ fw.stride >= MinDescriptorSize)
        => (pc = "done" /\ result = "Ok")

\* C12: against a firmware whose required size only grows and stops growing,
\* the loop of get_memory_map, once entered, ends; its rounds offer strictly
\* more after each too-small report; and when no AllocatePages or FreePages
\* call failed and the stride is valid it ends by returning the snapshot
\* (every step of the program leaves both true).
C12_LoopTerminates ==
    /\ (pc = "gmm_alloc") ~> (pc \in {"done", "panic", "ebs_first"})
    /\ [][ProbesGrow' /\ ReturnsSnapshot']_vars

\* C12 witness: get_memory_map returned a snapshot after three rounds of its
\* loop, the required size having grown between them.
C12_ReturnedAfterGrowth ==
    /\ pc = "done" /\ op = "get_memory_map" /\ result = "Ok"
    /\ Len(Probes) >= 3
    /\ Probes[1].status = BufferTooSmall
    /\ Probes[2].status = BufferTooSmall

\* C13: get_memory_map never returns BufferTooSmall: the error it returns is
\* the status of the failed AllocatePages or FreePages call that it made last,
\* and every too-small report of GetMemoryMap is followed by the release of
\* the buffer (the first step of the regrowth).
C13_TooSmallHandledInside ==
    /\ (op = "get_memory_map" /\ pc = "done" /\ result # "Ok") =>
            /\ Last(log).fn \in {"AllocatePages", "FreePages"}
            /\ Last(log).status # SUCCESS
            /\ result = Last(log).status
            /\ result # BufferTooSmall
    /\ \A i \in DOMAIN log :
        (log[i].fn = "GetMemoryMap" /\ log[i].phase = "gmm_query"
            /\ log[i].status = BufferTooSmall) =>
                IF i = Len(log)
                THEN pc = "gmm_free"
                ELSE log[i + 1].fn = "FreePages" /\ log[i + 1].buffer = log[i].buffer

\* C13 witness: get_memory_map returned an error after GetMemoryMap had
\* reported a too-small buffer.
C13_ErrorAfterTooSmall ==
    /\ op = "get_memory_map" /\ pc = "done" /\ result # "Ok"
    /\ \E i \in DOMAIN log :
        log[i].fn = "GetMemoryMap" /\ log[i].status = BufferTooSmall

\* The AllocatePages and FreePages calls of get_memory_map that failed.
FailedAllocations ==
    {i \in DOMAIN log :
        /\ log[i].fn \in {"AllocatePages", "FreePages"}
        /\ log[i].phase \in {"gmm_alloc", "gmm_free", "gmm_realloc"}
        /\ log[i].status # SUCCESS}

\* C14: a failed AllocatePages or FreePages call inside get_memory_map is the
\* last firmware call made: the operation has returned, with the status of
\* that one call unchanged as its error, and no call was repeated.
C14_AllocationFailureReturned ==
    /\ Cardinality(FailedAllocations) <= 1
    /\ \A i \in FailedAllocations :
        /\ i = Len(log)
        /\ pc = "done"
        /\ result = log[i].status

\* C14 witness: the allocation of a regrowth failed.
C14_RegrowthAllocationFailed ==
    \E i \in FailedAllocations :
        log[i].fn = "AllocatePages" /\ log[i].phase = "gmm_realloc"

\* C15: once a successful fill has stored a stride below the size of
\* MemoryDescriptor, the operation has halted on the failed assertion, that
\* fill being its last firmware call: it returned neither a snapshot nor an
\* error, and every snapshot that is returned has a stride of at least the
\* size of MemoryDescriptor.
C15_SmallStrideHalts ==
    /\ (memory_map.version = 1 /\ memory_map.descriptor_size < MinDescriptorSize) =>
            /\ pc = "panic"
            /\ result = "Panic"
            /\ IsFill(Last(log))
    /\ pc = "panic" => memory_map.descriptor_size < MinDescriptorSize
    /\ (pc = "done" /\ result = "Ok") =>
            memory_map.descriptor_size >= MinDescriptorSize

\* C15 witness: get_memory_map halted on a stride of 32 bytes, after a fill
\* into a buffer that it had allocated anew.
C15_HaltedOnStride32 ==
    /\ pc = "panic" /\ op = "get_memory_map"
    /\ memory_map.descriptor_size = 32
    /\ IsFill(Last(log))
    /\ \E i \in DOMAIN log :
        log[i].phase = "gmm_realloc" /\ log[i].status = SUCCESS

\* ---------------------------------------------------------------------
\* MemoryMap::len, iter and iter_mut on their own
\* ---------------------------------------------------------------------

\* The longest logical length of the snapshots that are iterated.
MaxLen == 100
\* Their strides: the smallest, one below the size of MemoryDescriptor, that
\* size, and a wider one.
IterStrides == {1, 39, 40, 48}

\* MemoryMap::len
MapLen(mm) == mm.size \div mm.descriptor_size

\* An iterator that takes the trailing partial chunk for a record.
WholeChunk_any(chunk_len, descriptor_size) == chunk_len > 0

\* MemoryMapIterator::next: if chunk.len() == self.descriptor_size
WholeChunk(chunk_len, descriptor_size) == chunk_len = descriptor_size

\* MemoryMapIterator::next and MemoryMapIteratorMut::next, which have the same
\* body.  chunks(descriptor_size) hands out the bytes from offset k *
\* descriptor_size on, at most descriptor_size of them, and nothing when none
\* are left.  debug_assert! is compiled only into builds with debug
\* assertions; without it a record is yielded whatever the stride.
IteratorNext(it) ==
    LET left == it.size - it.k * it.descriptor_size
        chunk_len == Min(it.descriptor_size, left)
    IN  IF left <= 0
        THEN [it EXCEPT !.st = "None"]
        ELSE IF ~WholeChunk(chunk_len, it.descriptor_size)
             THEN [it EXCEPT !.st = "None", !.k = @ + 1]
             ELSE IF it.debug_assertions /\ it.descriptor_size < MinDescriptorSize
                  THEN [it EXCEPT !.st = "Panic"]
                  ELSE [it EXCEPT !.st = "Some", !.k = @ + 1, !.yielded = @ + 1]

\* A snapshot of any length and stride, in a build with or without debug
\* assertions, before an iterator is made of it.
InitIter ==
    /\ pc = "idle"
    /\ op = "none"
    /\ memory_map = InitialMap(0)
    /\ buf = <<>>
    /\ filled = <<>>
    /\ fw = [key |-> 1, count |-> 1, pattern |-> 0, stride |-> MinDescriptorSize,
             tail |-> 0, live |-> {}, nextAddr |-> 1, active |-> TRUE,
             events |-> 0, faults |-> 0]
    /\ log = <<>>
    /\ result = "none"
    /\ locals \in [fn : {"MemoryMap"}, size : 0..MaxLen, descriptor_size : IterStrides,
                   debug_assertions : BOOLEAN, len : {0}, k : {0}, yielded : {0},
                   st : {"none"}]

\* pub fn iter(&self) -> MemoryMapIterator, after a call of len()
Iter ==
    /\ locals.fn = "MemoryMap"
    /\ locals' = [locals EXCEPT !.fn = "iter", !.len = MapLen(locals), !.st = "Some"]
    /\ UNCHANGED <<pc, op, memory_map, buf, filled, fw, log, result>>

\* pub fn iter_mut(&mut self) -> MemoryMapIteratorMut, after a call of len()
IterMut ==
    /\ locals.fn = "MemoryMap"
    /\ locals' = [locals EXCEPT !.fn = "iter_mut", !.len = MapLen(locals), !.st = "Some"]
    /\ UNCHANGED <<pc, op, memory_map, buf, filled, fw, log, result>>

\* impl Iterator for MemoryMapIterator: fn next(&mut self), called as a for
\* loop calls it, until it returns None
MemoryMapIteratorNext ==
    /\ locals.fn = "iter"
    /\ locals.st = "Some"
    /\ locals' = IteratorNext(locals)
    /\ UNCHANGED <<pc, op, memory_map, buf, filled, fw, log, result>>

\* impl Iterator for MemoryMapIteratorMut: fn next(&mut self)
MemoryMapIteratorMutNext ==
    /\ locals.fn = "iter_mut"
    /\ locals.st = "Some"
    /\ locals' = IteratorNext(locals)
    /\ UNCHANGED <<pc, op, memory_map, buf, filled, fw, log, result>>

NextIter ==
    \/ Iter
    \/ IterMut
    \/ MemoryMapIteratorNext
    \/ MemoryMapIteratorMutNext

SpecIter == InitIter /\ [][NextIter]_vars

\* The iteration is over: next returned None, or it panicked.
IterationOver == locals.fn \in {"iter", "iter_mut"} /\ locals.st \in {"None", "Panic"}

\* C16 as stated: for every stride of at least 1, iter and iter_mut end
\* without an error having yielded floor(L / S) items, the value of len().
C16_FloorForEveryStride ==
    IterationOver =>
        /\ locals.st = "None"
        /\ locals.yielded = locals.size \div locals.descriptor_size
        /\ locals.yielded = locals.len

\* C16 amended: for a stride of at least the size of MemoryDescriptor, or in a
\* build without debug assertions, iter and iter_mut end having yielded
\* floor(L / S) items, the value of len(), L / S when L is a multiple of S;
\* with debug assertions and a smaller stride, next panics on the first whole
\* chunk instead, having yielded nothing.
C16_FloorForValidStride ==
    /\ (IterationOver
            /\ (locals.descriptor_size >= MinDescriptorSize \/ ~locals.debug_assertions)) =>
                /\ locals.st = "None"
                /\ locals.yielded = locals.size \div locals.descriptor_size
                /\ locals.yielded = locals.len
                /\ locals.size % locals.descriptor_size = 0 =>
                        locals.yielded * locals.descriptor_size = locals.size
    /\ (IterationOver /\ locals.st = "Panic") <=>
            /\ IterationOver
            /\ locals.debug_assertions
            /\ locals.descriptor_size < MinDescriptorSize
            /\ locals.size >= locals.descriptor_size
    /\ (IterationOver /\ locals.st = "Panic") => locals.yielded = 0

\* C16 witness: iter_mut ended after two records of 48 bytes, having dropped a
\* trailing partial record of 4 bytes.
C16_PartialRecordDropped ==
    /\ locals.fn = "iter_mut" /\ locals.st = "None"
    /\ locals.size = 100 /\ locals.descriptor_size = 48
    /\ locals.yielded = 2

\* The successful fills made so far.
Fills == SelectSeq(log, IsFill)

\* An operation has returned a snapshot.
SnapshotReturned == pc = "done" /\ result = "Ok"

\* C17 as stated: the logical length of every returned snapshot is a multiple
\* of its stride, and its stride is at least the size of MemoryDescriptor.
C17_LengthMultipleOfStride ==
    SnapshotReturned =>
        /\ memory_map.size % memory_map.descriptor_size = 0
        /\ memory_map.descriptor_size >= MinDescriptorSize

\* C17 amended: the stride of every returned snapshot is at least the size of
\* MemoryDescriptor, and its logical length is the size the firmware reported
\* with the last successful fill, unchecked: a multiple of the stride exactly
\* when the firmware reported one.
C17_LengthAsReported ==
    SnapshotReturned =>
        /\ memory_map.descriptor_size >= MinDescriptorSize
        /\ memory_map.descriptor_size = fw.stride
        /\ memory_map.size = Last(Fills).size
        /\ memory_map.size % memory_map.descriptor_size = fw.tail % fw.stride

\* C17 witness: exit_boot_services returned a snapshot whose length is 8 bytes
\* more than a whole number of records.
C17_ReturnedWithPartialRecord ==
    /\ SnapshotReturned /\ op = "exit_boot_services"
    /\ memory_map.size % memory_map.descriptor_size = 8

\* C18: when exit_boot_services returns the snapshot, its buffer holds what
\* the last fill wrote except for the classification of the entries that were
\* BootServicesCode or BootServicesData: every other classification and every
\* physical start, virtual start, page count, attribute and trailing bytes are
\* as filled, and so are the record count, length, key, stride and version of
\* the snapshot.
C18_OnlyBootServiceTagsChange ==
    ReturnedOk =>
        /\ DOMAIN buf = DOMAIN filled
        /\ \A i \in DOMAIN buf :
            /\ [buf[i] EXCEPT !.Type = filled[i].Type] = filled[i]
            /\ ~IsBootService(filled[i].Type) => buf[i].Type = filled[i].Type
        /\ memory_map.size = Last(Fills).size
        /\ memory_map.key = Last(Fills).key
        /\ memory_map.descriptor_size = fw.stride
        /\ memory_map.version = 1
        /\ MapLen(memory_map) = Last(Fills).size \div fw.stride
        /\ memory_map.buffer = Last(Fills).buffer

\* C18 witness: exit_boot_services returned a snapshot of records with
\* trailing bytes in which one classification was rewritten and another,
\* LoaderData, was not.
C18_RewrittenWithTrailingBytes ==
    /\ ReturnedOk
    /\ memory_map.descriptor_size > MinDescriptorSize
    /\ \E i, j \in DOMAIN buf :
        /\ buf[i].Type # filled[i].Type
        /\ buf[j].Type = LoaderData
        /\ buf[j].Trailing # 0

\* The pages the firmware's allocator has handed out and not taken back,
\* counted from the calls it carried out: the first n calls of the log.
RECURSIVE PagesOutstanding(_)
PagesOutstanding(n) ==
    IF n = 0
    THEN 0
    ELSE PagesOutstanding(n - 1)
         + (IF log[n].status # SUCCESS THEN 0
            ELSE IF log[n].fn = "AllocatePages" THEN log[n].arg
            ELSE IF log[n].fn = "FreePages" THEN 0 - log[n].arg
            ELSE 0)

\* get_memory_map returned a snapshot and drop released it.
Dropped == pc = "dropped" /\ result = "Ok"

\* C19: after a successful get_memory_map and a successful drop, the buffer
\* of the snapshot was released by one call, with the page count it was
\* allocated with, and the firmware has as many pages outstanding as before
\* the acquisition, however often the buffer was regrown.
C19_AcquireDropBalanced ==
    Dropped =>
        /\ Cardinality({i \in DOMAIN log :
                log[i].fn = "FreePages" /\ log[i].buffer = memory_map.buffer}) = 1
        /\ Last(log).arg = AllocatedPages(memory_map.buffer)
        /\ PagesOutstanding(Len(log)) = 0

\* ---------------------------------------------------------------------
\* MemoryType and NamedMemoryType on their own
\* ---------------------------------------------------------------------

\* A u32 is held as its two 16-bit halves, [hi, lo]: the value hi * 2^16 + lo.
Half == 65536
\* 0x70000000 and 0x80000000: their upper halves (the lower halves are 0).
OEMSpecificBase == 28672
OSLoaderSpecificBase == 32768
\* The last code with a name of its own: PersistentMemory => 14.
LastNamedCode == 14

\* The codes that are converted: every lower half up to MaxCode and the two
\* largest ones, under the upper halves on both sides of each range limit.
MaxCode == 16
LowerHalves == (0..MaxCode) \cup {Half - 2, Half - 1}
UpperHalves == {0, 1, OEMSpecificBase - 1, OEMSpecificBase, OEMSpecificBase + 1,
                OSLoaderSpecificBase - 1, OSLoaderSpecificBase,
                OSLoaderSpecificBase + 1, Half - 1}

\* impl From<MemoryType> for NamedMemoryType: the arms 0 ..= 14
VariantOfCode(num) ==
    CASE num = 0 -> "ReservedMemoryType"
      [] num = 1 -> "LoaderCode"
      [] num = 2 -> "LoaderData"
      [] num = 3 -> "BootServicesCode"
      [] num = 4 -> "BootServicesData"
      [] num = 5 -> "RuntimeServicesCode"
      [] num = 6 -> "RuntimeServicesData"
      [] num = 7 -> "ConventionalMemory"
      [] num = 8 -> "UnusableMemory"
      [] num = 9 -> "ACPIReclaimMemory"
      [] num = 10 -> "ACPIMemoryNVS"
      [] num = 11 -> "MemoryMappedIO"
      [] num = 12 -> "MemoryMappedIOPortSpace"
      [] num = 13 -> "PalCode"
      [] num = 14 -> "PersistentMemory"

\* impl From<NamedMemoryType> for MemoryType: the arms of the variants
\* without a payload
CodeOfVariant(variant) ==
    CASE variant = "ReservedMemoryType" -> 0
      [] variant = "LoaderCode" -> 1
      [] variant = "LoaderData" -> 2
      [] variant = "BootServicesCode" -> 3
      [] variant = "BootServicesData" -> 4
      [] variant = "RuntimeServicesCode" -> 5
      [] variant = "RuntimeServicesData" -> 6
      [] variant = "ConventionalMemory" -> 7
      [] variant = "UnusableMemory" -> 8
      [] variant = "ACPIReclaimMemory" -> 9
      [] variant = "ACPIMemoryNVS" -> 10
      [] variant = "MemoryMappedIO" -> 11
      [] variant = "MemoryMappedIOPortSpace" -> 12
      [] variant = "PalCode" -> 13
      [] variant = "PersistentMemory" -> 14

\* impl From<MemoryType> for NamedMemoryType.  The variants with a payload
\* carry it as num; the others carry 0.
NamedMemoryTypeFrom(memory_type) ==
    IF memory_type.hi = 0 /\ memory_type.lo <= LastNamedCode
    THEN [variant |-> VariantOfCode(memory_type.lo), num |-> [hi |-> 0, lo |-> 0]]
    ELSE IF memory_type.hi < OEMSpecificBase
    THEN [variant |-> "UnknownMemoryType", num |-> memory_type]
    ELSE IF memory_type.hi < OSLoaderSpecificBase
    THEN [variant |-> "OEMSpecific",
          num |-> [hi |-> memory_type.hi - OEMSpecificBase, lo |-> memory_type.lo]]
    ELSE [variant |-> "OSLoaderSpecific",
          num |-> [hi |-> memory_type.hi - OSLoaderSpecificBase, lo |-> memory_type.lo]]

\* num + base in u32, base having a lower half of 0: the sum modulo 2^32, and
\* whether the addition overflowed (a panic in builds with overflow checks).
AddBase(num, base) ==
    [code |-> [hi |-> (num.hi + base) % Half, lo |-> num.lo],
     overflow |-> num.hi + base >= Half]

\* A conversion that adds the base of the OS loader range to OEM codes too.
MemoryTypeFrom_oneBase(named_memory_type) ==
    IF named_memory_type.variant = "UnknownMemoryType"
    THEN [code |-> named_memory_type.num, overflow |-> FALSE]
    ELSE IF named_memory_type.variant \in {"OEMSpecific", "OSLoaderSpecific"}
    THEN AddBase(named_memory_type.num, OSLoaderSpecificBase)
    ELSE [code |-> [hi |-> 0, lo |-> CodeOfVariant(named_memory_type.variant)],
          overflow |-> FALSE]

\* impl From<NamedMemoryType> for MemoryType
MemoryTypeFrom(named_memory_type) ==
    IF named_memory_type.variant = "UnknownMemoryType"
    THEN [code |-> named_memory_type.num, overflow |-> FALSE]
    ELSE IF named_memory_type.variant = "OEMSpecific"
    THEN AddBase(named_memory_type.num, OEMSpecificBase)
    ELSE IF named_memory_type.variant = "OSLoaderSpecific"
    THEN AddBase(named_memory_type.num, OSLoaderSpecificBase)
    ELSE [code |-> [hi |-> 0, lo |-> CodeOfVariant(named_memory_type.variant)],
          overflow |-> FALSE]

\* A raw code, before it is converted.
InitType ==
    /\ pc = "idle"
    /\ op = "none"
    /\ memory_map = InitialMap(0)
    /\ buf = <<>>
    /\ filled = <<>>
    /\ fw = [key |-> 1, count |-> 1, pattern |-> 0, stride |-> MinDescriptorSize,
             tail |-> 0, live |-> {}, nextAddr |-> 1, active |-> TRUE,
             events |-> 0, faults |-> 0]
    /\ log = <<>>
    /\ result = "none"
    /\ locals \in [fn : {"MemoryType"}, raw : [hi : UpperHalves, lo : LowerHalves]]

\* let named: NamedMemoryType = memory_type.into()
IntoNamedMemoryType ==
    /\ locals.fn = "MemoryType"
    /\ locals' = [fn |-> "NamedMemoryType", raw |-> locals.raw,
                  named |-> NamedMemoryTypeFrom(locals.raw)]
    /\ UNCHANGED <<pc, op, memory_map, buf, filled, fw, log, result>>

\* let back: MemoryType = named.into()
IntoMemoryType ==
    /\ locals.fn = "NamedMemoryType"
    /\ locals' = [fn |-> "RoundTrip", raw |-> locals.raw, named |-> locals.named,
                  back |-> MemoryTypeFrom(locals.named)]
    /\ UNCHANGED <<pc, op, memory_map, buf, filled, fw, log, result>>

NextType ==
    \/ IntoNamedMemoryType
    \/ IntoMemoryType

SpecType == InitType /\ [][NextType]_vars

\* C20: converting a raw code to NamedMemoryType and back gives the code
\* again, without an overflow of the addition; the codes up to 14 pass through
\* their own variant, those up to 0x6fffffff through UnknownMemoryType, those
\* from 0x70000000 through OEMSpecific and those from 0x80000000 through
\* OSLoaderSpecific.
C20_RoundTrip ==
    /\ locals.fn = "RoundTrip" =>
            /\ locals.back.code = locals.raw
            /\ ~locals.back.overflow
    /\ locals.fn \in {"NamedMemoryType", "RoundTrip"} =>
            /\ locals.named.variant = "OEMSpecific" <=>
                    (locals.raw.hi >= OEMSpecificBase /\ locals.raw.hi < OSLoaderSpecificBase)
            /\ locals.named.variant = "OSLoaderSpecific" <=>
                    locals.raw.hi >= OSLoaderSpecificBase
            /\ locals.named.variant = "UnknownMemoryType" <=>
                    /\ locals.raw.hi < OEMSpecificBase
                    /\ (locals.raw.hi > 0 \/ locals.raw.lo > LastNamedCode)

\* C20 witness: the code 0x7fffffff came back from OEMSpecific(0x0fffffff).
C20_LastOEMCodeRoundTripped ==
    /\ locals.fn = "RoundTrip"
    /\ locals.raw = [hi |-> OSLoaderSpecificBase - 1, lo |-> Half - 1]
    /\ locals.named.variant = "OEMSpecific"
    /\ locals.named.num = [hi |-> 4095, lo |-> Half - 1]
    /\ locals.back.code = locals.raw

\* ---------------------------------------------------------------------
\* with_utf16_str and TextOutput::output_string on their own
\* ---------------------------------------------------------------------

\* with_utf16_str: const BUFFER_SIZE: usize = 256
BUFFER_SIZE == 256
\* The longest string, in characters.
MaxChars == 258

\* The lengths of the strings, in characters: short ones, and those around
\* half the buffer and around the whole buffer.
Lengths ==
    {0, 1, 2}
    \cup ((BUFFER_SIZE \div 2 - 2)..(BUFFER_SIZE \div 2 + 1))
    \cup ((BUFFER_SIZE - 3)..MaxChars)

\* The strings: all characters in the basic plane, all outside it, or only
\* the last one outside it.
Shapes == {"bmp", "astral", "last_astral"}

\* What the function given to with_utf16_str answers: success, a warning or
\* an error.
Warnings == {"WarnUnknownGlyph", "WarnDeleteFailure"}
Errors == {"DeviceError", "Unsupported"}
Answers == {"Success"} \cup Warnings \cup Errors

\* character.len_utf16() of character i (from 1) of the string
LenUtf16(string, i) ==
    IF string.shape = "astral" \/ (string.shape = "last_astral" /\ i = string.n)
    THEN 2
    ELSE 1

\* character.encode_utf16 of character i: its code units, each one of its
\* own, none of them 0.
EncodeUtf16(string, i) ==
    IF LenUtf16(string, i) = 2 THEN <<2 * i, 2 * i + 1>> ELSE <<2 * i>>

\* The UTF-16 encoding of the characters from..to of the string.
RECURSIVE Utf16Of(_, _, _)
Utf16Of(string, from, to) ==
    IF from > to THEN <<>>
    ELSE IF from = to THEN EncodeUtf16(string, from)
    ELSE LET mid == (from + to) \div 2
         IN  Utf16Of(string, from, mid) \o Utf16Of(string, mid + 1, to)

\* The UTF-16 encoding of the string.
Utf16(string) == Utf16Of(string, 1, string.n)

\* What a function that is given buffer.as_ptr() reads: the code units up to
\* the first 0, and whether there is a 0 inside the buffer at all.
AsPtr(buffer) ==
    LET zeros == {k \in DOMAIN buffer : buffer[k] = 0}
        end == CHOOSE k \in zeros : \A j \in zeros : k <= j
    IN  IF zeros = {}
        THEN [units |-> [j \in 1..BUFFER_SIZE |-> buffer[j - 1]], terminated |-> FALSE]
        ELSE [units |-> [j \in 1..end |-> buffer[j - 1]], terminated |-> TRUE]

\* The `?` on the Status the function returns: a warning or success is the
\* value, an error leaves with_utf16_str.
IsError(status) == status \in Errors

\* The closure flush_buffer(&mut buffer, current_index, warning) with the
\* answer the function gives.  Its parameters current_index and warning are
\* bound with `ref mut` to the values passed in: the closure writes to its own
\* copies, and the caller's current_index and warning stay as they are; only
\* the buffer, passed as &mut, is written through.  buffer[*current_index]
\* panics when the index is not below BUFFER_SIZE.
FlushBuffer(buffer, current_index, warning, answer) ==
    IF current_index >= BUFFER_SIZE
    THEN [st |-> "Panic", buffer |-> buffer, passed |-> <<>>]
    ELSE LET flushed == [buffer EXCEPT ![current_index] = 0]
         IN  [st |-> (IF IsError(answer) THEN "Err" ELSE "Flushed"),
              buffer |-> flushed,
              passed |-> <<AsPtr(flushed)>>]

\* with_utf16_str: if current_index + character.len_utf16() + 1 >= BUFFER_SIZE
NotEnoughSpace(current_index, len) == current_index + len + 1 >= BUFFER_SIZE

\* with_utf16_str: character.encode_utf16(&mut buffer[current_index..]), which
\* panics when the slice is shorter than the character.
Encode(buffer, current_index, units) ==
    IF current_index + Len(units) > BUFFER_SIZE
    THEN [st |-> "Panic", buffer |-> buffer]
    ELSE [st |-> "Encoded",
          buffer |-> [k \in DOMAIN buffer |->
                        IF k >= current_index /\ k < current_index + Len(units)
                        THEN units[k - current_index + 1]
                        ELSE buffer[k]]]

\* A string, before output_string is called with it.
InitText ==
    /\ pc = "idle"
    /\ op = "none"
    /\ memory_map = InitialMap(0)
    /\ buf = <<>>
    /\ filled = <<>>
    /\ fw = [key |-> 1, count |-> 1, pattern |-> 0, stride |-> MinDescriptorSize,
             tail |-> 0, live |-> {}, nextAddr |-> 1, active |-> TRUE,
             events |-> 0, faults |-> 0]
    /\ log = <<>>
    /\ result = "none"
    /\ locals \in [fn : {"output_string"}, string : [n : Lengths, shape : Shapes]]

\* pub fn output_string(&self, string: &str), up to the loop of
\* with_utf16_str: the buffer of zeros, current_index = 0 and warning =
\* Warning::Success.
OutputString ==
    /\ locals.fn = "output_string"
    /\ locals' = [fn |-> "with_utf16_str", string |-> locals.string,
                  buffer |-> [k \in 0..(BUFFER_SIZE - 1) |-> 0],
                  current_index |-> 0, warning |-> "Success",
                  i |-> 0, calls |-> <<>>, answers |-> <<>>,
                  st |-> "loop", ret |-> "none"]
    /\ UNCHANGED <<pc, op, memory_map, buf, filled, fw, log, result>>

\* with_utf16_str: one round of for character in string.chars()
Utf16Character ==
    /\ locals.fn = "with_utf16_str"
    /\ locals.st = "loop"
    /\ locals.i < locals.string.n
    /\ LET i == locals.i + 1
           len == LenUtf16(locals.string, i)
           flush == NotEnoughSpace(locals.current_index, len)
       IN  \E answer \in (IF flush /\ locals.current_index < BUFFER_SIZE
                          THEN Answers ELSE {"none"}) :
            LET f == IF flush
                     THEN FlushBuffer(locals.buffer, locals.current_index,
                                      locals.warning, answer)
                     ELSE [st |-> "Flushed", buffer |-> locals.buffer, passed |-> <<>>]
                e == Encode(f.buffer, locals.current_index, EncodeUtf16(locals.string, i))
                called == [locals EXCEPT !.calls = @ \o f.passed,
                                         !.answers = IF f.passed = <<>> THEN @
                                                     ELSE Append(@, answer),
                                         !.buffer = f.buffer]
            IN  locals' =
                    IF f.st = "Panic" THEN [called EXCEPT !.st = "Panic"]
                    ELSE IF f.st = "Err" THEN [called EXCEPT !.st = "Err", !.ret = answer]
                    ELSE IF e.st = "Panic" THEN [called EXCEPT !.st = "Panic"]
                    ELSE [called EXCEPT !.buffer = e.buffer, !.i = i,
                                        !.current_index = @ + len]
    /\ UNCHANGED <<pc, op, memory_map, buf, filled, fw, log, result>>

\* with_utf16_str: flush_buffer(&mut buffer, current_index, warning)?;
\* Ok(warning)
Utf16Return ==
    /\ locals.fn = "with_utf16_str"
    /\ locals.st = "loop"
    /\ locals.i = locals.string.n
    /\ \E answer \in (IF locals.current_index < BUFFER_SIZE THEN Answers ELSE {"none"}) :
        LET f == FlushBuffer(locals.buffer, locals.current_index, locals.warning, answer)
            called == [locals EXCEPT !.calls = @ \o f.passed,
                                     !.answers = IF f.passed = <<>> THEN @
                                                 ELSE Append(@, answer),
                                     !.buffer = f.buffer]
        IN  locals' =
                IF f.st = "Panic" THEN [called EXCEPT !.st = "Panic"]
                ELSE IF f.st = "Err" THEN [called EXCEPT !.st = "Err", !.ret = answer]
                ELSE [called EXCEPT !.st = "Ok", !.ret = locals.warning]
    /\ UNCHANGED <<pc, op, memory_map, buf, filled, fw, log, result>>

NextText ==
    \/ OutputString
    \/ Utf16Character
    \/ Utf16Return

SpecText == InitText /\ [][NextText]_vars

\* with_utf16_str is running or has ended.
InWithUtf16Str == locals.fn = "with_utf16_str"

\* The code units the invocations received before their terminators, in the
\* order of the invocations.
RECURSIVE Passed(_)
Passed(n) == IF n = 0 THEN <<>> ELSE Passed(n - 1) \o locals.calls[n].units

\* C21: when with_utf16_str returns Ok, every invocation of the function has
\* received a null-terminated buffer, and the code units the invocations
\* received, put together in their order, are the UTF-16 encoding of the
\* string.
C21_PassedIsEncoding ==
    (InWithUtf16Str /\ locals.st = "Ok") =>
        /\ \A c \in DOMAIN locals.calls : locals.calls[c].terminated
        /\ Passed(Len(locals.calls)) = Utf16(locals.string)

\* The capacity in bytes of the buffer that call i of the log was given.
Capacity(i) == AllocatedPages(log[i].buffer) * PAGE_SIZE

\* C22: a re-query of exit_boot_services is not answered with a too-small
\* report, and so does not end in Aborted, when the firmware's map at that
\* moment fits the capacity of the buffer.
C22_RequeryUsesCapacity ==
    \A i \in DOMAIN log :
        (log[i].fn = "GetMemoryMap" /\ log[i].phase = "ebs_requery"
            /\ log[i].status = BufferTooSmall) =>
                log[i].size > Capacity(i)

\* C23: the fill that follows a regrowth after a too-small report is not
\* answered with another too-small report when the firmware's map at that
\* moment fits the capacity of the new buffer, padding page included.
C23_RetryUsesPadding ==
    \A i \in DOMAIN log :
        (log[i].fn = "GetMemoryMap" /\ log[i].phase = "gmm_query"
            /\ log[i - 1].fn = "AllocatePages" /\ log[i - 1].phase = "gmm_realloc"
            /\ log[i - 3].status = BufferTooSmall
            /\ log[i].status = BufferTooSmall) =>
                log[i].size > Capacity(i)

\* C24: get_memory_map releases its buffer, to allocate a new one, only
\* after a too-small report of GetMemoryMap; after any other failure of
\* GetMemoryMap it makes no FreePages or AllocatePages call.
C24_RegrowsOnlyOnTooSmall ==
    \A i \in DOMAIN log :
        (log[i].fn = "GetMemoryMap" /\ log[i].phase = "gmm_query"
            /\ log[i].status \notin {SUCCESS, BufferTooSmall}) =>
                /\ pc # "gmm_free"
                /\ i < Len(log) => log[i + 1].fn \notin {"FreePages", "AllocatePages"}

\* C25: every GetMemoryMap call offers at most the capacity of the buffer it
\* is given, which is allocated at that moment with alloc_size pages, and a
\* successful fill writes at most what was offered; the logical length of
\* every returned snapshot is at most alloc_size * PAGE_SIZE, the capacity of
\* its buffer.
C25_WithinCapacity ==
    /\ \A i \in DOMAIN log :
        log[i].fn = "GetMemoryMap" =>
            /\ log[i].arg <= Capacity(i)
            /\ log[i].status = SUCCESS => log[i].size <= log[i].arg
    /\ pc \in {"gmm_query", "ebs_requery"} =>
            /\ memory_map.size <= memory_map.alloc_size * PAGE_SIZE
            /\ [address |-> memory_map.buffer, pages |-> memory_map.alloc_size] \in fw.live
    /\ SnapshotReturned =>
            /\ memory_map.size <= memory_map.alloc_size * PAGE_SIZE
            /\ memory_map.alloc_size = AllocatedPages(memory_map.buffer)

\* C25 witness: exit_boot_services returned, after a regrowth and a
\* re-query, a snapshot that is longer than one page.
C25_LongSnapshotAfterRequery ==
    /\ SnapshotReturned /\ op = "exit_boot_services"
    /\ memory_map.size > PAGE_SIZE
    /\ Regrowths # {}
    /\ \E i \in DOMAIN log : log[i].phase = "ebs_requery"

\* C26: with_utf16_str never panics on an index outside its buffer (every
\* write of a code unit or of the terminator is at an index below
\* BUFFER_SIZE), and once an invocation of the function has returned an error
\* it is the last invocation and its error is what with_utf16_str returns.
C26_NoWriteOutsideBuffer ==
    InWithUtf16Str =>
        /\ locals.st # "Panic"
        /\ \A a \in DOMAIN locals.answers :
            IsError(locals.answers[a]) =>
                /\ a = Len(locals.answers)
                /\ locals.st = "Err"
                /\ locals.ret = locals.answers[a]

\* The first warning among the answers of the invocations, or success.
FirstWarning(answers) ==
    LET warned == {a \in DOMAIN answers : answers[a] \in Warnings}
    IN  IF warned = {}
        THEN "Success"
        ELSE answers[CHOOSE a \in warned : \A b \in warned : a <= b]

\* C27: when with_utf16_str returns Ok, its value is Warning::Success if every
\* invocation of the function answered success, and otherwise the first
\* warning that an invocation answered.
C27_FirstWarningReturned ==
    (InWithUtf16Str /\ locals.st = "Ok") => locals.ret = FirstWarning(locals.answers)

====
